---- MODULE Spec2Model ----
(***************************************************************************)
(* Refresh scheduler of the review-requests menu-bar command (the variant  *)
(* with a TTL cache and a single refresh timer).                           *)
(*                                                                         *)
(* One component instance is modelled over its life: constructed, mounted  *)
(* (the effect has run), possibly re-run on a preference change, and       *)
(* unmounted.  Every render creates a closure over the preferences and the *)
(* items of that render; a timer callback and the continuation of a fetch  *)
(* keep the closure of the render that created them, while the refs        *)
(* (lastFetchedRef, refreshTimerRef) and the Cache are shared.             *)
(* Handlers run to completion (single-threaded event loop); the only       *)
(* suspension point is the await of the network request.                   *)
(*                                                                         *)
(* Spec is the program.  SpecAudit is the same program with two history    *)
(* records switched on: which requests in flight have been superseded, and *)
(* whether a refresh has stopped at the missing-token guard.               *)
(*                                                                         *)
(* SpecRefresh adds the call of fetchAll without force.  SpecCorrupt       *)
(* starts the program on a Cache whose entry is missing or corrupt.        *)
(* SpecInterval and SpecBadge run it under one configuration that is not   *)
(* edited, the first over a wider range of configured refresh intervals,   *)
(* the second against a wider range of server answers.                     *)
(***************************************************************************)
EXTENDS Integers, Sequences, FiniteSets, TLC

\* ---------------------------------------------------------------- bounds
\* Granularity of the clock, in milliseconds.
TickMs == 10000
\* Number of clock ticks explored after the start of the process.
MaxTicks == 1
\* Largest number of network requests in flight that is explored.
MaxInflight == 2

\* ------------------------------------------------------------- constants
\* Floor of the refresh interval, in seconds.
MinRefreshSeconds == 10
\* Counts above this value are rendered as "99+".
BadgeCap == 99

NullTs == -1
NoCount == -1
NullHandle == 0
NoError == "<null>"
NoToken == ""
ConfigMsg == "Set your GitHub token in the extension preferences."
UnknownMsg == "Unknown error"
DefaultEndpoint == "https://api.github.com/graphql"

\* Date.now() when the process starts.
StartTime == 3 * TickMs

Max(a, b) == IF a >= b THEN a ELSE b

\* ----------------------------------------------------------- preferences
Tokens == {NoToken, "ghp_token"}
Endpoints == {"", "https://ghe.example/api/graphql"}
RefreshSeconds == {5, 15}

Preferences ==
  [githubToken : Tokens, graphqlEndpoint : Endpoints, refreshInterval : RefreshSeconds]

\* A refresh interval taken from the preference without the floor.
refreshIntervalUnclamped(p) == p.refreshInterval * 1000

\* const refreshInterval = Math.max(10, Number(prefs.refreshInterval ?? 300)) * 1000
refreshInterval(p) == Max(MinRefreshSeconds, p.refreshInterval) * 1000

\* The stable cache key (the token is excluded).
cacheKey(p) ==
  IF p.graphqlEndpoint = "" THEN DefaultEndpoint ELSE p.graphqlEndpoint

CacheKeys == {cacheKey(p) : p \in Preferences}

\* What fetchAll, scheduleNextRefresh and the timer callback of one render
\* see: the preferences and the items of that render.
Closure(p, its) ==
  [token |-> p.githubToken, key |-> cacheKey(p),
   interval |-> refreshInterval(p), itemsEmpty |-> (Len(its) = 0)]

\* The preferences are edited one at a time, each edit causing a render.
OneChanged(p, q) ==
  Cardinality({f \in DOMAIN p : p[f] # q[f]}) = 1

\* The dependency list of the mount effect.
EffectDeps(p) ==
  <<cacheKey(p), p.githubToken, p.graphqlEndpoint, refreshInterval(p)>>

\* ------------------------------------------------------ server responses
\* What the search returns: issueCount and the mapped nodes.
ServerPayloads ==
  { [issueCount |-> 150, items |-> <<"pr1">>] }

\* What a failed request throws: an Error with a message.
Thrown == { [hasMessage |-> TRUE, message |-> "Empty response from GitHub"] }

\* return { count: issueCount || items.length, items }
SearchResult(pl) ==
  [count |-> IF pl.issueCount # 0 THEN pl.issueCount ELSE Len(pl.items),
   items |-> pl.items]

\* const msg = typeof e?.message === "string" ? e.message : "Unknown error"
ErrorMessage(e) == IF e.hasMessage THEN e.message ELSE UnknownMsg

\* ---------------------------------------------------------------- cache
AbsentEntry == [kind |-> "absent", ts |-> 0, count |-> 0, items |-> <<>>]
\* A stored string that JSON.parse rejects.
GarbageEntry == [kind |-> "garbage", ts |-> 0, count |-> 0, items |-> <<>>]
\* JSON.stringify({ ts, count, items }) as stored by a successful fetch.
CachedData(ts, res) ==
  [kind |-> "ok", ts |-> ts, count |-> res.count, items |-> res.items]

\* A snapshot left by an earlier run of the process.
OldResult == [count |-> 2, items |-> <<"pr8", "pr9">>]

InitialEntries ==
  { AbsentEntry, GarbageEntry,
    CachedData(StartTime - TickMs, OldResult),
    CachedData(StartTime - TickMs \div 2, OldResult) }

\* What the Cache holds when the process starts: anything for the default
\* endpoint, nothing for the other one.
InitialCaches ==
  { c \in [CacheKeys -> InitialEntries] :
      \A k \in CacheKeys \ {DefaultEndpoint} : c[k] = AbsentEntry }

\* Stored JSON that parses to an object without a numeric ts.
NoTsEntry ==
  [kind |-> "noTs", ts |-> 0, count |-> 7, items |-> <<"pr7">>]
\* Stored JSON that parses to an object whose items is not an array.
NoItemsEntry ==
  [kind |-> "noItems", ts |-> StartTime - 1, count |-> 7, items |-> <<>>]

CorruptEntries == {GarbageEntry, NoTsEntry, NoItemsEntry}

\* A Cache whose entry for the default endpoint is missing or corrupt.
CorruptCaches ==
  { c \in [CacheKeys -> CorruptEntries \cup {AbsentEntry}] :
      \A k \in CacheKeys \ {DefaultEndpoint} : c[k] = AbsentEntry }

\* cached && typeof cached.ts === "number" && Array.isArray(cached.items)
ValidCached(raw) == raw.kind = "ok"

VARIABLES
  now,             \* Date.now()
  prefs,           \* getPreferenceValues() of the latest render
  phase,           \* "init" (constructed), "mounted", "unmounted"
  count,           \* useState: number | null
  items,           \* useState: ReviewRequest[]
  loading,         \* useState: boolean
  error,           \* useState: string | null
  lastFetchedRef,  \* useRef: number | null
  refreshTimerRef, \* useRef: handle of the last timer set | null
  timers,          \* timers pending in the runtime
  inflight,        \* requests awaiting their response, in order of start
  cache,           \* the process-wide Cache, by key
  auditing,        \* history is recorded (fixed for a behaviour)
  rejected,        \* history: fetchAll has stopped at the missing-token
                   \* guard since the preferences last changed
  last             \* history: what the last step did

vars == <<now, prefs, phase, count, items, loading, error, lastFetchedRef,
          refreshTimerRef, timers, inflight, cache, auditing, rejected, last>>

\* ------------------------------------------------------ timer primitives
\* function clearRefreshTimer()
clearRefreshTimer(tm, ref) ==
  IF ref # NullHandle
  THEN [timers |-> {x \in tm : x.id # ref}, ref |-> NullHandle]
  ELSE [timers |-> tm, ref |-> ref]

\* A handle that no pending timer has.
NewHandle(tm) ==
  CHOOSE h \in 1..(Cardinality(tm) + 1) : \A x \in tm : x.id # h

\* A scheduler that anchors the next refresh to the current time.
refreshDelayFromNow(baseTs, lf, t, interval) == interval

\* The delay computed by scheduleNextRefresh(baseTs).
refreshDelay(baseTs, lf, t, interval) ==
  LET base == IF baseTs # NullTs THEN baseTs
              ELSE IF lf # NullTs THEN lf ELSE 0
      effectiveBase == IF base > 0 THEN base ELSE t
      dueAt == effectiveBase + interval
  IN Max(0, dueAt - t)

\* A scheduler that sets the new timer without clearing the previous one.
scheduleWithoutClear(tm, ref, baseTs, lf, t, cl) ==
  LET h == NewHandle(tm)
  IN [timers |-> tm \cup
                 {[id |-> h, setAt |-> t,
                   delay |-> refreshDelay(baseTs, lf, t, cl.interval),
                   cl |-> cl]},
      ref |-> h]

\* function scheduleNextRefresh(baseTs?)
scheduleNextRefresh(tm, ref, baseTs, lf, t, cl) ==
  LET c == clearRefreshTimer(tm, ref)
      h == NewHandle(c.timers)
  IN [timers |-> c.timers \cup
                 {[id |-> h, setAt |-> t,
                   delay |-> refreshDelay(baseTs, lf, t, cl.interval),
                   cl |-> cl]},
      ref |-> h]

\* A staleness test that excludes the boundary.
isStaleStrict(ts, lf, t, interval) ==
  LET refTs == IF ts # NullTs THEN ts ELSE lf
  IN IF refTs = NullTs \/ refTs = 0 THEN TRUE
     ELSE t - refTs > interval

\* function isStale(ts?)
isStale(ts, lf, t, interval) ==
  LET refTs == IF ts # NullTs THEN ts ELSE lf
  IN IF refTs = NullTs \/ refTs = 0 THEN TRUE
     ELSE t - refTs >= interval

\* ------------------------------------------------------------- fetchAll
\* A fetchAll whose TTL guard tests staleness the wrong way round.
fetchAllGuardInverted(force, cl, lf, t, err, ld) ==
  IF ~force /\ isStale(NullTs, lf, t, cl.interval)
  THEN [error |-> err, loading |-> FALSE, started |-> FALSE,
        rejected |-> FALSE]
  ELSE IF cl.token = NoToken
  THEN [error |-> ConfigMsg, loading |-> FALSE, started |-> FALSE,
        rejected |-> TRUE]
  ELSE [error |-> err, loading |-> cl.itemsEmpty, started |-> TRUE,
        rejected |-> FALSE]

\* A fetchAll whose TTL guard ignores the force flag.
fetchAllHonoursTtl(force, cl, lf, t, err, ld) ==
  IF ~isStale(NullTs, lf, t, cl.interval)
  THEN [error |-> err, loading |-> FALSE, started |-> FALSE,
        rejected |-> FALSE]
  ELSE IF cl.token = NoToken
  THEN [error |-> ConfigMsg, loading |-> FALSE, started |-> FALSE,
        rejected |-> TRUE]
  ELSE [error |-> err, loading |-> cl.itemsEmpty, started |-> TRUE,
        rejected |-> FALSE]

\* fetchAll(force) up to the await: what it sets and whether it issues the
\* request.  err and ld are the error and loading state it starts from.
fetchAll(force, cl, lf, t, err, ld) ==
  IF ~force /\ ~isStale(NullTs, lf, t, cl.interval)
  THEN [error |-> err, loading |-> FALSE, started |-> FALSE,
        rejected |-> FALSE]
  ELSE IF cl.token = NoToken
  THEN [error |-> ConfigMsg, loading |-> FALSE, started |-> FALSE,
        rejected |-> TRUE]
  ELSE [error |-> err, loading |-> cl.itemsEmpty, started |-> TRUE,
        rejected |-> FALSE]

\* The request record appended when fetchAll issues the request.
\* superseded is history: since the request was issued, the effect has run
\* under another cache key or a request issued later has completed.
Request(cl) == [cl |-> cl, superseded |-> FALSE]

Supersede(reqs, n) ==
  [j \in 1..Len(reqs) |->
     IF j <= n /\ auditing THEN [reqs[j] EXCEPT !.superseded = TRUE]
     ELSE reqs[j]]

Started(b) == IF b THEN 1 ELSE 0

Step(op, started, notified) ==
  [op |-> op, started |-> started, notified |-> notified]

\* ------------------------------------------------------------------ Init
InitState ==
  /\ now = StartTime
  /\ prefs \in Preferences
  /\ phase = "init"
  /\ count = NoCount
  /\ items = <<>>
  /\ loading = TRUE
  /\ error = NoError
  /\ lastFetchedRef = NullTs
  /\ refreshTimerRef = NullHandle
  /\ timers = {}
  /\ inflight = <<>>
  /\ cache \in InitialCaches
  /\ rejected = FALSE
  /\ last = Step("Init", 0, FALSE)

\* The program, without the history of superseded requests and rejected
\* refreshes.
Init == InitState /\ auditing = FALSE

\* The program with that history recorded.
InitAudit == InitState /\ auditing = TRUE

\* ------------------------------------------------------- the mount effect
\* The body of useEffect run with the closure cl of the render whose
\* dependencies changed; tm and ref are the timers and the timer ref
\* after the cleanup of the previous run (if any).
MountEffect(cl, tm, ref) ==
  LET c == clearRefreshTimer(tm, ref)
      raw == cache[cl.key]
  IN IF ValidCached(raw)
     THEN IF isStale(raw.ts, raw.ts, now, cl.interval)
          THEN LET f == fetchAll(TRUE, cl, raw.ts, now, NoError, loading)
               IN [count |-> raw.count, items |-> raw.items,
                   error |-> f.error, loading |-> f.loading,
                   lastFetched |-> raw.ts,
                   timers |-> c.timers, ref |-> c.ref,
                   started |-> f.started, rejected |-> f.rejected]
          ELSE LET s == scheduleNextRefresh(c.timers, c.ref, raw.ts,
                                            raw.ts, now, cl)
               IN [count |-> raw.count, items |-> raw.items,
                   error |-> NoError, loading |-> FALSE,
                   lastFetched |-> raw.ts,
                   timers |-> s.timers, ref |-> s.ref,
                   started |-> FALSE, rejected |-> FALSE]
     ELSE LET f == fetchAll(TRUE, cl, lastFetchedRef, now, error, TRUE)
          IN [count |-> count, items |-> items,
              error |-> f.error, loading |-> f.loading,
              lastFetched |-> lastFetchedRef,
              timers |-> c.timers, ref |-> c.ref,
              started |-> f.started, rejected |-> f.rejected]

ApplyEffect(m, cl, op, keyChanged) ==
  /\ m.started => Len(inflight) < MaxInflight
  /\ count' = m.count
  /\ items' = m.items
  /\ error' = m.error
  /\ loading' = m.loading
  /\ lastFetchedRef' = m.lastFetched
  /\ timers' = m.timers
  /\ refreshTimerRef' = m.ref
  /\ LET older == IF keyChanged THEN Supersede(inflight, Len(inflight))
                  ELSE inflight
     IN inflight' = IF m.started THEN Append(older, Request(cl)) ELSE older
  /\ rejected' = (auditing /\ m.rejected)
  /\ last' = Step(op, Started(m.started), FALSE)

\* First run of the effect, after the first render.
Mount ==
  /\ phase = "init"
  /\ phase' = "mounted"
  /\ LET cl == Closure(prefs, items)
     IN ApplyEffect(MountEffect(cl, timers, refreshTimerRef), cl, "Mount", FALSE)
  /\ UNCHANGED <<now, prefs, cache, auditing>>

\* A preference change that changes a dependency of the effect: the
\* cleanup of the previous run, then the effect of the new render.
ConfigChange(p) ==
  /\ phase = "mounted"
  /\ OneChanged(prefs, p)
  /\ EffectDeps(p) # EffectDeps(prefs)
  /\ prefs' = p
  /\ LET cl == Closure(p, items)
         c == clearRefreshTimer(timers, refreshTimerRef)
     IN ApplyEffect(MountEffect(cl, c.timers, c.ref), cl, "ConfigChange",
                    cacheKey(p) # cacheKey(prefs))
  /\ UNCHANGED <<now, phase, cache, auditing>>

\* The cleanup of the effect when the component is removed.  The state of
\* the component is discarded with it (shown as the initial useState
\* values); the refs stay reachable from the closures still alive.
Unmount ==
  /\ phase = "mounted"
  /\ phase' = "unmounted"
  /\ LET c == clearRefreshTimer(timers, refreshTimerRef)
     IN /\ timers' = c.timers
        /\ refreshTimerRef' = c.ref
  /\ count' = NoCount
  /\ items' = <<>>
  /\ loading' = TRUE
  /\ error' = NoError
  /\ last' = Step("Unmount", 0, FALSE)
  /\ UNCHANGED <<now, prefs, lastFetchedRef, inflight, cache, auditing,
                 rejected>>

\* ------------------------------------------------- calls of fetchAll(true)
\* State setters have no effect once the component is unmounted.
SetState(c, i, e, l) ==
  IF phase = "mounted"
  THEN /\ count' = c
       /\ items' = i
       /\ error' = e
       /\ loading' = l
  ELSE UNCHANGED <<count, items, error, loading>>

\* A call of fetchAll(force) by the closure cl, up to the await.
CallFetch(force, cl, op) ==
  LET f == fetchAll(force, cl, lastFetchedRef, now, error, loading)
  IN /\ f.started => Len(inflight) < MaxInflight
     /\ SetState(count, items, f.error, f.loading)
     /\ inflight' = (IF f.started THEN Append(inflight, Request(cl))
                     ELSE inflight)
     /\ rejected' = (rejected \/ (auditing /\ f.rejected))
     /\ last' = Step(op, Started(f.started), FALSE)

CallFetchAll(cl, op) == CallFetch(TRUE, cl, op)

\* The "Refresh Now" menu item of the latest render.
RefreshNow ==
  /\ phase = "mounted"
  /\ CallFetchAll(Closure(prefs, items), "RefreshNow")
  /\ UNCHANGED <<now, prefs, phase, lastFetchedRef, refreshTimerRef, timers,
                 cache, auditing>>

\* The callback of a pending timer whose delay has elapsed.
TimerFire(tmr) ==
  /\ tmr \in timers
  /\ now >= tmr.setAt + tmr.delay
  /\ timers' = timers \ {tmr}
  /\ CallFetchAll(tmr.cl, "TimerFire")
  /\ UNCHANGED <<now, prefs, phase, lastFetchedRef, refreshTimerRef, cache,
                 auditing>>

\* fetchAll() called without force by the latest render (the refresh
\* operation as the presentation layer may call it; the menu itself only
\* passes true).
Refresh ==
  /\ phase = "mounted"
  /\ CallFetch(FALSE, Closure(prefs, items), "Refresh")
  /\ UNCHANGED <<now, prefs, phase, lastFetchedRef, refreshTimerRef, timers,
                 cache, auditing>>

\* ------------------------------------------------ completion of a request
Remove(s, i) == [j \in 1..(Len(s) - 1) |-> IF j < i THEN s[j] ELSE s[j + 1]]

\* Requests started before request i are superseded once i has completed.
Complete(i) == Supersede(Remove(inflight, i), i - 1)

\* The request resolves: the rest of the try block, then finally.
FetchSuccess(i, pl) ==
  /\ i \in 1..Len(inflight)
  /\ LET cl == inflight[i].cl
         res == SearchResult(pl)
         s == scheduleNextRefresh(timers, refreshTimerRef, now,
                                  now, now, cl)
     IN /\ SetState(res.count, res.items, NoError, FALSE)
        /\ lastFetchedRef' = now
        /\ cache' = [cache EXCEPT ![cl.key] = CachedData(now, res)]
        /\ timers' = s.timers
        /\ refreshTimerRef' = s.ref
  /\ inflight' = Complete(i)
  /\ last' = Step("FetchSuccess", 0, FALSE)
  /\ UNCHANGED <<now, prefs, phase, auditing, rejected>>

\* A catch block that drops the last known data and records the failure
\* time as the time of the last fetch.
FetchFailureResetting(i, e) ==
  /\ i \in 1..Len(inflight)
  /\ LET cl == inflight[i].cl
         s == scheduleNextRefresh(timers, refreshTimerRef, now,
                                  lastFetchedRef, now, cl)
     IN /\ SetState(NoCount, <<>>, ErrorMessage(e), FALSE)
        /\ lastFetchedRef' = now
        /\ timers' = s.timers
        /\ refreshTimerRef' = s.ref
  /\ inflight' = Complete(i)
  /\ last' = Step("FetchFailure", 0, TRUE)
  /\ UNCHANGED <<now, prefs, phase, cache, auditing, rejected>>

\* A catch block that stores the last known data as a new snapshot.
FetchFailureStoring(i, e) ==
  /\ i \in 1..Len(inflight)
  /\ LET cl == inflight[i].cl
         s == scheduleNextRefresh(timers, refreshTimerRef, now,
                                  lastFetchedRef, now, cl)
     IN /\ SetState(count, items, ErrorMessage(e), FALSE)
        /\ cache' = [cache EXCEPT ![cl.key] =
                       CachedData(now, [count |-> count, items |-> items])]
        /\ timers' = s.timers
        /\ refreshTimerRef' = s.ref
  /\ inflight' = Complete(i)
  /\ last' = Step("FetchFailure", 0, TRUE)
  /\ UNCHANGED <<now, prefs, phase, lastFetchedRef, auditing, rejected>>

\* The request rejects: the catch block, then finally.
FetchFailure(i, e) ==
  /\ i \in 1..Len(inflight)
  /\ LET cl == inflight[i].cl
         s == scheduleNextRefresh(timers, refreshTimerRef, now,
                                  lastFetchedRef, now, cl)
     IN /\ SetState(count, items, ErrorMessage(e), FALSE)
        /\ timers' = s.timers
        /\ refreshTimerRef' = s.ref
  /\ inflight' = Complete(i)
  /\ last' = Step("FetchFailure", 0, TRUE)
  /\ UNCHANGED <<now, prefs, phase, lastFetchedRef, cache, auditing,
                 rejected>>

\* Time passes.
Tick ==
  /\ now < StartTime + MaxTicks * TickMs
  /\ now' = now + TickMs
  /\ last' = Step("Tick", 0, FALSE)
  /\ UNCHANGED <<prefs, phase, count, items, loading, error, lastFetchedRef,
                 refreshTimerRef, timers, inflight, cache, auditing,
                 rejected>>

Next ==
  \/ Mount
  \/ \E p \in Preferences : ConfigChange(p)
  \/ Unmount
  \/ RefreshNow
  \/ \E tmr \in timers : TimerFire(tmr)
  \/ \E i \in 1..MaxInflight, pl \in ServerPayloads : FetchSuccess(i, pl)
  \/ \E i \in 1..MaxInflight, e \in Thrown : FetchFailure(i, e)
  \/ Tick

Spec == Init /\ [][Next]_vars

SpecAudit == InitAudit /\ [][Next]_vars

\* The program started on a Cache with a missing or corrupt entry.
InitCorrupt ==
  /\ now = StartTime
  /\ prefs \in Preferences
  /\ phase = "init"
  /\ count = NoCount
  /\ items = <<>>
  /\ loading = TRUE
  /\ error = NoError
  /\ lastFetchedRef = NullTs
  /\ refreshTimerRef = NullHandle
  /\ timers = {}
  /\ inflight = <<>>
  /\ cache \in CorruptCaches
  /\ auditing = FALSE
  /\ rejected = FALSE
  /\ last = Step("Init", 0, FALSE)

SpecCorrupt == InitCorrupt /\ [][Next]_vars

\* The program run under one configuration that is not edited, for refresh
\* intervals from a wider range: negative, zero, below, at and above the
\* floor.
WideSeconds == {-30, 0, 1, 9, 10, 11, 20}

WidePreferences ==
  [githubToken : Tokens, graphqlEndpoint : {""}, refreshInterval : WideSeconds]

InitInterval ==
  /\ now = StartTime
  /\ prefs \in WidePreferences
  /\ phase = "init"
  /\ count = NoCount
  /\ items = <<>>
  /\ loading = TRUE
  /\ error = NoError
  /\ lastFetchedRef = NullTs
  /\ refreshTimerRef = NullHandle
  /\ timers = {}
  /\ inflight = <<>>
  /\ cache \in InitialCaches
  /\ auditing = FALSE
  /\ rejected = FALSE
  /\ last = Step("Init", 0, FALSE)

NextInterval ==
  \/ Mount
  \/ Unmount
  \/ RefreshNow
  \/ \E tmr \in timers : TimerFire(tmr)
  \/ \E i \in 1..MaxInflight, pl \in ServerPayloads : FetchSuccess(i, pl)
  \/ \E i \in 1..MaxInflight, e \in Thrown : FetchFailure(i, e)
  \/ Tick

SpecInterval == InitInterval /\ [][NextInterval]_vars

\* The program run under one unedited configuration against a server with
\* a wider range of answers: counts around the cap of the badge, an
\* issueCount of 0 with and without nodes, a thrown value that is not an
\* Error, and an errors array whose messages join to the empty string.
BadgePayloads ==
  { [issueCount |-> 0, items |-> <<>>],
    [issueCount |-> 0, items |-> <<"pr1">>],
    [issueCount |-> 99, items |-> <<"pr1">>],
    [issueCount |-> 100, items |-> <<"pr1">>],
    [issueCount |-> 150, items |-> <<"pr1">>] }

BadgeThrown ==
  { [hasMessage |-> TRUE, message |-> "Empty response from GitHub"],
    [hasMessage |-> FALSE, message |-> ""],
    [hasMessage |-> TRUE, message |-> ""] }

BadgePreferences ==
  [githubToken : Tokens, graphqlEndpoint : {""}, refreshInterval : {5}]

InitBadge ==
  /\ now = StartTime
  /\ prefs \in BadgePreferences
  /\ phase = "init"
  /\ count = NoCount
  /\ items = <<>>
  /\ loading = TRUE
  /\ error = NoError
  /\ lastFetchedRef = NullTs
  /\ refreshTimerRef = NullHandle
  /\ timers = {}
  /\ inflight = <<>>
  /\ cache \in InitialCaches
  /\ auditing = FALSE
  /\ rejected = FALSE
  /\ last = Step("Init", 0, FALSE)

NextBadge ==
  \/ Mount
  \/ Unmount
  \/ RefreshNow
  \/ \E tmr \in timers : TimerFire(tmr)
  \/ \E i \in 1..MaxInflight, pl \in BadgePayloads : FetchSuccess(i, pl)
  \/ \E i \in 1..MaxInflight, e \in BadgeThrown : FetchFailure(i, e)
  \/ Tick

SpecBadge == InitBadge /\ [][NextBadge]_vars

\* The program with the refresh operation also called without force,
\* started with no snapshot or with a fresh one.
RefreshCaches ==
  { c \in InitialCaches :
      c[DefaultEndpoint] \in
        {AbsentEntry, CachedData(StartTime - TickMs \div 2, OldResult)} }

InitRefresh == Init /\ cache \in RefreshCaches

NextRefresh == Next \/ Refresh

SpecRefresh == InitRefresh /\ [][NextRefresh]_vars

\* ------------------------------------------------------------ the badge
\* const title = useMemo(...)
title(err, cnt) ==
  IF err # NoError /\ err # "" THEN "!"
  ELSE IF cnt = NoCount THEN "..."
  ELSE IF cnt > BadgeCap THEN "99+"
  ELSE ToString(cnt)

\* ------------------------------------------------ vocabulary of the claims
\* The last step ran the mount effect (first run or re-run).
MountStep == last.op \in {"Mount", "ConfigChange"}
HasCredential == prefs.githubToken # NoToken
\* The Cache entry of the current fingerprint.
Snapshot == cache[cacheKey(prefs)]
SnapshotAbsent == Snapshot.kind = "absent"
SnapshotFresh ==
  Snapshot.kind = "ok" /\ now - Snapshot.ts < refreshInterval(prefs)
SnapshotStale ==
  Snapshot.kind = "ok" /\ now - Snapshot.ts >= refreshInterval(prefs)
\* The instant at which a pending timer is due.
DueAt(tmr) == tmr.setAt + tmr.delay
FailureMessages == {ErrorMessage(e) : e \in Thrown}
\* The last fetch recorded in memory is younger than the refresh interval.
LastFetchFresh ==
  lastFetchedRef > 0 /\ now - lastFetchedRef < refreshInterval(prefs)
\* The entry of the current fingerprint is stored but unusable.
SnapshotCorrupt == Snapshot \in CorruptEntries
Results == {SearchResult(pl) : pl \in ServerPayloads}

\* ------------------------------------------------------------------- C1
\* C1: a step that runs the mount effect with a credential and a fresh
\* snapshot (now - fetchedAt < refreshInterval) issues no request and
\* leaves exactly the timer set in that step, with delay
\* fetchedAt + refreshInterval - now; this holds for every mount, so
\* consecutive mounts on a fresh snapshot issue no request.
C1_FreshMountArmsAnchoredTimer ==
  [][ (MountStep' /\ HasCredential' /\ SnapshotFresh')
        => /\ Len(inflight') = Len(inflight)
           /\ last'.started = 0
           /\ \E tmr \in timers' :
                 /\ timers' = {tmr}
                 /\ tmr.id = refreshTimerRef'
                 /\ tmr.setAt = now'
                 /\ tmr.delay
                      = Snapshot'.ts + refreshInterval(prefs') - now' ]_vars

\* A re-run of the effect (a second mount) with a credential on a snapshot
\* that is fresh and older than the mount.
C1_Witness ==
  /\ last.op = "ConfigChange"
  /\ HasCredential
  /\ SnapshotFresh
  /\ now > Snapshot.ts
  /\ inflight = <<>>
  /\ Cardinality(timers) = 1

\* ------------------------------------------------------------------- C2
\* C2: a step that runs the mount effect with a credential and a snapshot
\* that is absent or stale (now - fetchedAt >= refreshInterval) issues
\* exactly one request; in the stale case count and items are those of the
\* snapshot right after the step, while the request is in flight.
C2_StaleOrAbsentMountFetchesOnce ==
  [][ (MountStep' /\ HasCredential' /\ (SnapshotAbsent' \/ SnapshotStale'))
        => /\ Len(inflight') = Len(inflight) + 1
           /\ last'.started = 1
           /\ SnapshotStale'
                => /\ count' = Snapshot'.count
                   /\ items' = Snapshot'.items ]_vars

\* A mount on a snapshot whose age is exactly the refresh interval.
C2_Witness ==
  /\ MountStep
  /\ HasCredential
  /\ Snapshot.kind = "ok"
  /\ now - Snapshot.ts = refreshInterval(prefs)
  /\ Len(inflight) = 1
  /\ count = Snapshot.count
  /\ items = Snapshot.items

\* ------------------------------------------------------------------- C3
\* C3: in every reachable state at most one refresh timer is pending.
C3_AtMostOneTimer == Cardinality(timers) <= 1

\* A request completed and set its timer while another request, issued
\* while the first was in flight, is still awaiting its response.
C3_Witness ==
  /\ phase = "mounted"
  /\ last.op \in {"FetchSuccess", "FetchFailure"}
  /\ Len(inflight) = 1
  /\ Cardinality(timers) = 1

\* ------------------------------------------------------------------- C4
\* C4: at most one request is in flight at any time.
C4_AtMostOneInFlight == Len(inflight) <= 1

\* ------------------------------------------------------------------- C5
\* C5: the response of a superseded request (the effect has since run
\* under another fingerprint, or a request issued later has completed)
\* leaves count, items, error and lastFetchedAt unchanged.
C5_LateResponseKeepsNewerState ==
  [][ \A i \in 1..Len(inflight) :
        ( /\ inflight[i].superseded
          /\ last'.op \in {"FetchSuccess", "FetchFailure"}
          /\ inflight' = Complete(i) )
        => UNCHANGED <<count, items, error, lastFetchedRef>> ]_vars

\* ------------------------------------------------------------------- C6
\* C6: after unmount no timer is pending, and while mounted no pending
\* timer belongs to a previous fingerprint.
C6_NoDanglingTimer ==
  /\ phase = "unmounted" => timers = {}
  /\ \A tmr \in timers : tmr.cl.key = cacheKey(prefs)

\* ------------------------------------------------------------------- C7
\* C7 (state part): right after a request has failed on a mounted
\* instance the error is the failure's message, a notification was
\* emitted, and the one pending timer is due at now + refreshInterval.
C7_FailureRearmsAtNowPlusInterval ==
  (last.op = "FetchFailure" /\ phase = "mounted")
    => /\ error \in FailureMessages
       /\ last.notified
       /\ \E tmr \in timers :
             /\ timers = {tmr}
             /\ DueAt(tmr) = now + refreshInterval(prefs)

\* ------------------------------------------------------------------- C8
\* C8: right after a request has succeeded at time t on a mounted instance
\* count and items are the result, error is cleared, the Cache holds
\* {t, count, items} under the current fingerprint, lastFetchedAt is t and
\* the pending timer is due at t + refreshInterval.
C8_SuccessUpdatesStateCacheAndTimer ==
  (last.op = "FetchSuccess" /\ phase = "mounted")
    => /\ [count |-> count, items |-> items] \in Results
       /\ error = NoError
       /\ Snapshot = CachedData(now, [count |-> count, items |-> items])
       /\ lastFetchedRef = now
       /\ \E tmr \in timers :
             /\ timers = {tmr}
             /\ DueAt(tmr) = now + refreshInterval(prefs)

\* ------------------------------------------------------------------- C9
\* C9 (terminal part): once a refresh has stopped at the missing
\* credential, no step issues a request while the credential stays absent.
C9_NoFetchWhileCredentialAbsent ==
  (rejected /\ ~HasCredential) => last.started = 0

\* ------------------------------------------------------------------ C10
\* C10: right after a mount with no credential the error is the
\* configuration message, the badge is "!", and no request was issued,
\* whatever the Cache holds.
C10_MountWithoutCredentialIsError ==
  (MountStep /\ ~HasCredential)
    => /\ error = ConfigMsg
       /\ title(error, count) = "!"
       /\ last.started = 0

\* ------------------------------------------------------------------ C11
\* C11: a forced refresh ("Refresh Now" or the timer callback) while a
\* credential is configured issues exactly one request, whether the
\* snapshot is stale or fresh; a forced refresh of a render that has no
\* credential issues none and, on a mounted instance, sets the
\* configuration error.
C11_ForcedRefreshAlwaysFetches ==
  [][ /\ (last'.op \in {"RefreshNow", "TimerFire"} /\ HasCredential)
           => /\ last'.started = 1
              /\ Len(inflight') = Len(inflight) + 1
      /\ (last'.op = "RefreshNow" /\ ~HasCredential)
           => /\ last'.started = 0
              /\ inflight' = inflight
              /\ error' = ConfigMsg
      /\ \A tmr \in timers :
           ( /\ last'.op = "TimerFire"
             /\ timers' = timers \ {tmr}
             /\ tmr.cl.token = NoToken )
           => /\ last'.started = 0
              /\ inflight' = inflight
              /\ phase = "mounted" => error' = ConfigMsg ]_vars

\* "Refresh Now" with a credential on a snapshot that is still fresh has
\* issued a request.
C11_Witness ==
  /\ last.op = "RefreshNow"
  /\ HasCredential
  /\ SnapshotFresh
  /\ lastFetchedRef = Snapshot.ts
  /\ last.started = 1
  /\ Len(inflight) >= 1

\* ------------------------------------------------------------------ C12
\* C12: once lastFetchedAt is set, no step that keeps the fingerprint
\* (mount effect, completion of a request, timer callback, refresh)
\* decreases it.
C12_LastFetchedAtMonotone ==
  [][ (lastFetchedRef # NullTs /\ cacheKey(prefs') = cacheKey(prefs))
        => lastFetchedRef' >= lastFetchedRef ]_vars

\* ------------------------------------------------------------------ C13
\* C13: only the success path of a request writes the Cache: every other
\* step (failed request, refresh stopped at the missing credential,
\* suppressed non-forced refresh, mount effect, unmount, timer callback,
\* passage of time) leaves every entry unchanged, and a success writes
\* exactly one entry, {now, count, items} of the response.
C13_CacheWrittenOnlyBySuccess ==
  [][ /\ last'.op # "FetchSuccess" => cache' = cache
      /\ last'.op = "FetchSuccess"
           => \E k \in CacheKeys, res \in Results :
                 cache' = [cache EXCEPT ![k] = CachedData(now, res)] ]_vars

\* A request has failed on a mounted instance and the fingerprint still
\* has no snapshot.
C13_Witness ==
  /\ phase = "mounted"
  /\ last.op = "FetchFailure"
  /\ error \in FailureMessages
  /\ SnapshotAbsent

\* ------------------------------------------------------------------ C14
\* C14: a step that runs the mount effect with a credential on a corrupt
\* entry (unparsable, no numeric ts, or no items array) does what a mount
\* on an absent snapshot is specified to do: it issues one request, the
\* loading flag is set, no error is set, and no count, items or timestamp
\* is taken from the entry.
C14_CorruptSnapshotIsAbsent ==
  [][ (MountStep' /\ HasCredential' /\ SnapshotCorrupt')
        => /\ last'.started = 1
           /\ Len(inflight') = Len(inflight) + 1
           /\ loading' = TRUE
           /\ error' \in {error, NoError}
           /\ count' \in {count, NoCount}
           /\ items' \in {items, <<>>}
           /\ lastFetchedRef' \in {lastFetchedRef, NullTs} ]_vars

\* ------------------------------------------------------------------ C15
\* C15: a non-forced refresh while the snapshot is not stale (the Cache
\* entry of the fingerprint, or the last fetch recorded in memory, is
\* younger than refreshInterval) issues no request and leaves count,
\* items, error, lastFetchedAt, the pending timer and the Cache unchanged;
\* afterwards the loading flag is false.
C15_SuppressedRefreshOnlyClearsLoading ==
  [][ (last'.op = "Refresh" /\ (SnapshotFresh \/ LastFetchFresh))
        => /\ last'.started = 0
           /\ inflight' = inflight
           /\ loading' = FALSE
           /\ UNCHANGED <<count, items, error, lastFetchedRef,
                          refreshTimerRef, timers, cache>> ]_vars

\* A non-forced refresh on a fresh snapshot has returned at the TTL guard:
\* nothing is in flight and the timer armed by the mount is still pending.
C15_Witness ==
  /\ last.op = "Refresh"
  /\ SnapshotFresh
  /\ HasCredential
  /\ last.started = 0
  /\ inflight = <<>>
  /\ ~loading
  /\ \E tmr \in timers :
        timers = {tmr} /\ DueAt(tmr) = Snapshot.ts + refreshInterval(prefs)

\* ------------------------------------------------------------------ C16
\* C16: under a configuration with any refresh interval in seconds (also
\* negative, zero or below 10) the interval in use is
\* max(10, seconds) * 1000 ms: every timer callback and request carries
\* it, the mount effect fetches on a stored snapshot exactly when its age
\* has reached it, and the timer armed by the completion of a request has
\* exactly that delay, which is never below 10 seconds.
C16_IntervalIsClamped ==
  LET seconds == prefs.refreshInterval
      used == (IF seconds > 10 THEN seconds ELSE 10) * 1000
  IN /\ \A tmr \in timers : tmr.cl.interval = used
     /\ \A i \in 1..Len(inflight) : inflight[i].cl.interval = used
     /\ (last.op = "Mount" /\ HasCredential /\ Snapshot.kind = "ok")
          => (last.started = 1 <=> now - Snapshot.ts >= used)
     /\ last.op \in {"FetchSuccess", "FetchFailure"}
          => \E tmr \in timers :
                /\ timers = {tmr}
                /\ tmr.delay = used
                /\ tmr.delay >= 10000

\* With a configured interval of zero or less, a request has completed and
\* the timer it armed is pending.
C16_Witness ==
  /\ prefs.refreshInterval <= 0
  /\ last.op \in {"FetchSuccess", "FetchFailure"}
  /\ \E tmr \in timers : tmr.setAt = now /\ tmr.delay = 10000

\* ------------------------------------------------------------------ C17
\* C17: in every reachable state the badge is "!" when an error is set
\* (whatever the count), otherwise "..." when no count is known, otherwise
\* "99+" when the count exceeds 99, otherwise the count in decimal.
C17_BadgeFunction ==
  LET badge == title(error, count)
  IN /\ error # NoError => badge = "!"
     /\ (error = NoError /\ count = NoCount) => badge = "..."
     /\ (error = NoError /\ count # NoCount /\ count > 99)
          => badge = "99+"
     /\ (error = NoError /\ count # NoCount /\ count <= 99)
          => badge = ToString(count)

\* ------------------------------------------------------------------ C18
\* C18: a re-run of the mount effect under a new fingerprint that has no
\* Cache entry leaves no count, items or lastFetchedAt of the previous
\* fingerprint in the state, and with a credential the loading flag is
\* set.
C18_FingerprintChangeDropsOldSnapshot ==
  [][ ( /\ last'.op = "ConfigChange"
        /\ cacheKey(prefs') # cacheKey(prefs)
        /\ SnapshotAbsent' )
        => /\ count' = NoCount
           /\ items' = <<>>
           /\ lastFetchedRef' = NullTs
           /\ HasCredential' => loading' = TRUE ]_vars

\* ------------------------------------------------------------------ C19
\* C19: whenever the timer callback runs, the snapshot is no longer fresh:
\* now >= lastFetchedAt + refreshInterval, and the Cache entry of the
\* fingerprint, if any, is at least refreshInterval old.
C19_TimerNeverFiresOnFreshSnapshot ==
  [][ last'.op = "TimerFire"
        => /\ ~LastFetchFresh
           /\ ~SnapshotFresh ]_vars

\* ------------------------------------------------------------------ C20
\* C20: the failure of a request leaves count, items, lastFetchedAt and
\* the Cache as they were and, on a mounted instance, sets the error to
\* the failure's message and clears the loading flag; the forced refresh
\* that issued the request left count, items and lastFetchedAt unchanged
\* as well.
C20_FailureKeepsLastKnownData ==
  [][ /\ last'.op = "FetchFailure"
           => /\ UNCHANGED <<count, items, lastFetchedRef, cache>>
              /\ phase = "mounted"
                   => (error' \in FailureMessages /\ loading' = FALSE)
      /\ last'.op \in {"RefreshNow", "TimerFire"}
           => UNCHANGED <<count, items, lastFetchedRef, cache>> ]_vars

\* A stale snapshot was adopted, the request to refresh it has failed, and
\* the snapshot's data is still shown next to the error.
C20_Witness ==
  /\ phase = "mounted"
  /\ last.op = "FetchFailure"
  /\ error \in FailureMessages
  /\ ~loading
  /\ Snapshot.kind = "ok"
  /\ count = Snapshot.count
  /\ items = Snapshot.items
  /\ lastFetchedRef = Snapshot.ts
  /\ \E tmr \in timers : DueAt(tmr) = now + refreshInterval(prefs)

====
